---- MODULE Spec2Model ----
(***************************************************************************)
(* Inter-agent negotiation protocol                                        *)
(* (applications/insurance-claims-processing/src/shared/                   *)
(*  agent_negotiation_protocol.py).                                        *)
(*                                                                         *)
(* Two AgentNegotiationEngine instances exchange protocol messages.  Every *)
(* handler is a pure operator from (engine state, message) to (engine      *)
(* state, messages sent, offers formulated, result); the actions apply the *)
(* handlers.  Python floats are fixed-point numbers in units of 1/Unit,    *)
(* every product and quotient rounded to the nearest unit.  A Python dict  *)
(* is a function whose DOMAIN is the set of its keys; an optional key is a *)
(* sequence of length 0 or 1.  The fields of every record are written in   *)
(* the order in which TLC keeps them.  pending holds the handlers that are *)
(* suspended at an await with statements still to run.                     *)
(***************************************************************************)
EXTENDS Integers, Sequences, FiniteSets, Bags, TLC

VARIABLES eng, net, now, last, inits, injects, pending

vars == <<eng, net, now, last, inits, injects, pending>>

----------------------------------------------------------------------------
(* Bounds of the model *)

\* initiate_negotiation calls in one behaviour
MaxInit == 1
\* messages of its own the environment hands the engines while they negotiate
MaxInject == 1
\* messages the environment hands the engines when it is their only peer
MaxEnv == 3
\* clock ticks
MaxTime == 1

----------------------------------------------------------------------------
(* Fixed-point arithmetic standing for Python floats *)

Unit == 10 * 1000

\* n/d rounded to the nearest integer, d > 0
Round(n, d) == (2 * n + d) \div (2 * d)

\* a * b
Mul(a, b) == Round(a * b, Unit)

\* a / b, b # 0
Div(a, b) == IF b > 0 THEN Round(a * Unit, b) ELSE Round((0 - a) * Unit, 0 - b)

\* p hundredths
Pct(p) == p * (Unit \div 100)

Min(a, b) == IF a <= b THEN a ELSE b

Max(a, b) == IF a >= b THEN a ELSE b

----------------------------------------------------------------------------
(* Python dicts and optional keys *)

EmptyDict == [k \in {} |-> 0]

\* d.get(k, dflt)
Get(d, k, dflt) == IF k \in DOMAIN d THEN d[k] ELSE dflt

\* d[k] = v
Put(d, k, v) == [x \in DOMAIN d \cup {k} |-> IF x = k THEN v ELSE d[x]]

Absent == <<>>

Some(v) == <<v>>

\* o.get(dflt) of an optional key
OrElse(o, dflt) == IF Len(o) = 0 THEN dflt ELSE o[1]

----------------------------------------------------------------------------
(* Enumerations and configuration *)

Agents == {"a", "b"}

Other(a) == IF a = "a" THEN "b" ELSE "a"

\* resource kinds, in dict insertion order
KindOrder == <<"cpu", "memory">>

Kinds == {KindOrder[i] : i \in 1..Len(KindOrder)}

NegIds == {"n1", "n2"}

\* the negotiation ids the environment's own messages name
EnvIds == {"n1"}

NegotiationStatus ==
  {"initiated", "in_progress", "offer_made", "counter_offer",
   "accepted", "rejected", "expired", "completed"}

NonTerminal == {"initiated", "in_progress", "offer_made", "counter_offer"}

Terminal == {"accepted", "rejected", "expired", "completed"}

\* max_rounds of an initiator session, and the default read for a session
\* that stores none
MaxRounds == 10

\* initial_capabilities of the two engines
InitialResources(a) ==
  IF a = "a" THEN [k \in {"cpu", "memory"} |-> IF k = "cpu" THEN 2 * Unit ELSE Unit]
  ELSE [k \in {"cpu"} |-> Unit]

InitialExpertise(a) ==
  IF a = "a" THEN {"fraud_detection", "pattern_analysis"} ELSE {"policy_validation"}

\* Relationship values a deployment seeds into capabilities.trust_scores and
\* capabilities.collaboration_history (both empty after construction): none,
\* a distrusted peer, a well-known peer.
Seeds ==
  { [trust |-> Absent, collab |-> Absent],
    [trust |-> Some(Pct(10)), collab |-> Absent],
    [trust |-> Some(Pct(90)), collab |-> Some(Pct(90))] }

SeedDict(o, peer) == IF Len(o) = 0 THEN EmptyDict ELSE [k \in {peer} |-> o[1]]

\* request dicts handed to initiate_negotiation
Request(needed, expertise) ==
  [resources_needed |-> needed, required_expertise |-> expertise]

Requests ==
  { Request([k \in {"cpu"} |-> Unit], {"policy_validation"}),
    Request([k \in {"cpu", "memory"} |-> Unit], {}) }

\* values of 0.7 + np.random.random() * 0.3
ConfidenceDraws == {Pct(70), Pct(90)}

\* max_duration_ms of initiate_negotiation: its default, and the values a
\* caller passes where deadlines are explored (a clock tick is 1 ms)
DefaultDuration == 30000

Durations == {0 - 1, 1}

----------------------------------------------------------------------------
(* Records *)

NegotiationOffer(from, to, requested, offered, constraints, priority, confidence) ==
  [constraints |-> constraints, priority |-> priority, confidence |-> confidence,
   from_agent |-> from, to_agent |-> to,
   resources_requested |-> requested, resources_offered |-> offered]

\* a protocol message; the keys a kind does not carry are Absent
Message(to, kind, nid) ==
  [to |-> to, from_agent |-> Absent, kind |-> kind, negotiation_id |-> nid,
   initial_offer |-> Absent, counter_offer |-> Absent,
   request_details |-> Absent,
   agreement |-> Absent, reason |-> Absent, alternative_suggestions |-> Absent,
   score |-> Absent, round |-> Absent]

\* an agreement dict; a key it does not carry is Absent
Agreement(committed, increase, peer, terms) ==
  [terms |-> terms, resources_committed |-> committed,
   workload_increase |-> increase, peer_agent |-> peer]

AgentNegotiationEngine(a, seed) ==
  [agent_id |-> a,
   available_resources |-> InitialResources(a),
   expertise_areas |-> InitialExpertise(a),
   current_workload |-> 0,
   collaboration_history |-> SeedDict(seed.collab, Other(a)),
   trust_scores |-> SeedDict(seed.trust, Other(a)),
   active_negotiations |-> EmptyDict,
   negotiation_history |-> <<>>]

\* what a handler did: the engine after it, the messages it sent, the offers
\* it formulated, what it returned
Outcome(e, out, formulated, result) ==
  [eng |-> e, out |-> out, formulated |-> formulated, result |-> result]

----------------------------------------------------------------------------
(* Helper methods *)

\* _calculate_available_resources
_calculate_available_resources(e) ==
  [k \in DOMAIN e.available_resources |->
     Mul(e.available_resources[k], Unit - e.current_workload)]

\* _extract_resource_requirements
_extract_resource_requirements(request) == request.resources_needed

\* _generate_constraints
_generate_constraints(e) ==
  (IF e.current_workload > Pct(70) THEN <<"high_workload_priority_only">> ELSE <<>>)
  \o (IF Cardinality(DOMAIN e.active_negotiations) > 3
      THEN <<"limited_concurrent_negotiations">> ELSE <<>>)

\* _suggest_alternatives
_suggest_alternatives(request) ==
  <<"partial_collaboration", "delayed_execution", "resource_sharing">>

\* a needs assessment that takes the request's resources_needed as the needs
_assess_our_needs_from_request(request) ==
  IF "resources_needed" \in DOMAIN request THEN request.resources_needed ELSE EmptyDict

\* _assess_our_needs: a placeholder that assesses no needs
_assess_our_needs(request) == EmptyDict

\* _determine_negotiation_strategy: a placeholder
_determine_negotiation_strategy(from_agent, offer) == "adaptive"

\* _calculate_potential_benefit: a placeholder, 0.6
_calculate_potential_benefit(offer, request) == Pct(60)

\* _create_agreement: the offer under "terms"; no resources_committed,
\* workload_increase or peer_agent key
_create_agreement(offer, negotiation) == Agreement(Absent, Absent, Absent, Some(offer))

\* _update_collaboration_history
_update_collaboration_history(e, agent_id, success) ==
  LET current_rate == Get(e.collaboration_history, agent_id, Pct(50))
      new_rate == Mul(current_rate, Pct(90)) + Mul(IF success THEN Unit ELSE 0, Pct(10))
  IN  [e EXCEPT !.collaboration_history = Put(@, agent_id, new_rate)]

\* a trust update that does not clamp
_update_trust_score_unclamped(e, agent_id, change) ==
  [e EXCEPT !.trust_scores = Put(@, agent_id, Get(@, agent_id, Pct(50)) + change)]

\* _update_trust_score
_update_trust_score(e, agent_id, change) ==
  LET current_trust == Get(e.trust_scores, agent_id, Pct(50))
      new_trust == Max(0, Min(Unit, current_trust + change))
  IN  [e EXCEPT !.trust_scores = Put(@, agent_id, new_trust)]

----------------------------------------------------------------------------
(* Offer formulation *)

\* the generosity factor of _formulate_initial_offer
offer_generosity(e, target_agent) ==
  Round(Get(e.trust_scores, target_agent, Pct(50))
        + Get(e.collaboration_history, target_agent, Pct(50)), 2)

\* _formulate_initial_offer; confidence is the draw of _calculate_offer_confidence
_formulate_initial_offer(e, target_agent, request, confidence) ==
  LET available == _calculate_available_resources(e)
      resources_offered ==
        [k \in DOMAIN available |-> Mul(available[k], offer_generosity(e, target_agent))]
  IN  NegotiationOffer(e.agent_id, target_agent,
                       _extract_resource_requirements(request), resources_offered,
                       _generate_constraints(e), Pct(50), confidence)

\* _formulate_counter_offer
_formulate_counter_offer(e, from_agent, initial_offer, request_details, confidence) ==
  LET our_available == _calculate_available_resources(e)
      our_needs == _assess_our_needs(request_details)
      strategy == _determine_negotiation_strategy(from_agent, initial_offer)
      trust_factor == Get(e.trust_scores, from_agent, Pct(50))
      offer_factor ==
        IF strategy = "cooperative" THEN Pct(80)
        ELSE IF strategy = "competitive" THEN Pct(40)
        ELSE Pct(40) + Mul(trust_factor, Pct(40))
      request_factor ==
        IF strategy = "cooperative" THEN Pct(70)
        ELSE IF strategy = "competitive" THEN Pct(120)
        ELSE Unit - Mul(trust_factor, Pct(30))
  IN  NegotiationOffer(e.agent_id, from_agent,
                       [k \in DOMAIN our_needs |-> Mul(our_needs[k], request_factor)],
                       [k \in DOMAIN our_available |-> Mul(our_available[k], offer_factor)],
                       _generate_constraints(e), initial_offer.priority, confidence)

\* a refinement that lowers what is offered by the improvement factor
_refine_offer_withdrawing(e, peer_offer, negotiation, current_score) ==
  LET improvement_factor == Mul(Unit - current_score, Pct(30))
      last_offered == negotiation.our_last_offer[1].resources_offered
      last_requested == negotiation.our_last_offer[1].resources_requested
      our_available == _calculate_available_resources(e)
  IN  NegotiationOffer(e.agent_id, peer_offer.from_agent,
                       [k \in DOMAIN last_requested |->
                          Mul(last_requested[k], Unit - Mul(improvement_factor, Pct(50)))],
                       [k \in DOMAIN last_offered |->
                          Min(Mul(last_offered[k], Unit - improvement_factor),
                              Mul(Get(our_available, k, 0), Pct(90)))],
                       _generate_constraints(e), peer_offer.priority,
                       Min(Unit, current_score + improvement_factor))

\* _refine_offer: the refined offer, built from the session's "our_last_offer"
\* (an empty dict when the session stores none)
_refine_offer(e, peer_offer, negotiation, current_score) ==
  LET improvement_factor == Mul(Unit - current_score, Pct(30))
      has_last == Len(negotiation.our_last_offer) > 0
      last_offered ==
        IF has_last THEN negotiation.our_last_offer[1].resources_offered ELSE EmptyDict
      last_requested ==
        IF has_last THEN negotiation.our_last_offer[1].resources_requested ELSE EmptyDict
      our_available == _calculate_available_resources(e)
      resources_offered ==
        [k \in DOMAIN last_offered |->
           Min(Mul(last_offered[k], Unit + improvement_factor),
               Mul(Get(our_available, k, 0), Pct(90)))]
      resources_requested ==
        [k \in DOMAIN last_requested |->
           Mul(last_requested[k], Unit - Mul(improvement_factor, Pct(50)))]
  IN  NegotiationOffer(e.agent_id, peer_offer.from_agent,
                       resources_requested, resources_offered,
                       _generate_constraints(e), peer_offer.priority,
                       Min(Unit, current_score + improvement_factor))

----------------------------------------------------------------------------
(* Offer evaluation *)

RECURSIVE needs_sum(_, _, _)
\* the sum of the satisfaction of the needs KindOrder[i..]
needs_sum(i, our_needs, resources_offered) ==
  IF i > Len(KindOrder) THEN 0
  ELSE LET k == KindOrder[i]
           needed == our_needs[k]
           satisfaction ==
             IF needed > 0 THEN Min(Unit, Div(Get(resources_offered, k, 0), needed))
             ELSE Unit
       IN  (IF k \in DOMAIN our_needs THEN satisfaction ELSE 0)
           + needs_sum(i + 1, our_needs, resources_offered)

RECURSIVE request_reasonableness(_, _, _, _)
\* acc times available/requested for every kind of KindOrder[i..] requested
\* beyond what is available
request_reasonableness(i, resources_requested, our_available, acc) ==
  IF i > Len(KindOrder) THEN acc
  ELSE LET k == KindOrder[i]
           requested == resources_requested[k]
           available == Get(our_available, k, 0)
       IN  IF k \in DOMAIN resources_requested /\ requested > available
           THEN request_reasonableness(i + 1, resources_requested, our_available,
                                       Mul(acc, Div(available, requested)))
           ELSE request_reasonableness(i + 1, resources_requested, our_available, acc)

\* _evaluate_offer raises ZeroDivisionError: a kind requested at 0 while less
\* than 0 is available
evaluate_raises(e, offer) ==
  LET our_available == _calculate_available_resources(e)
  IN  \E k \in DOMAIN offer.resources_requested :
        /\ offer.resources_requested[k] = 0
        /\ Get(our_available, k, 0) < 0

\* _evaluate_offer, where it does not raise
_evaluate_offer(e, offer, negotiation) ==
  LET our_available == _calculate_available_resources(e)
      our_needs == _assess_our_needs(OrElse(negotiation.initial_request, EmptyDict))
      needs_satisfaction ==
        IF DOMAIN our_needs = {} THEN 0
        ELSE Div(needs_sum(1, our_needs, offer.resources_offered),
                 Cardinality(DOMAIN our_needs) * Unit)
      reasonableness ==
        request_reasonableness(1, offer.resources_requested, our_available, Unit)
      trust_bonus == Mul(Get(e.trust_scores, offer.from_agent, Pct(50)), Pct(10))
      history_bonus == Mul(Get(e.collaboration_history, offer.from_agent, Pct(50)), Pct(10))
      score == Mul(needs_satisfaction, Pct(40)) + Mul(reasonableness, Pct(40))
               + trust_bonus + history_bonus
  IN  Min(Unit, Mul(score, Pct(50) + Mul(offer.confidence, Pct(50))))

\* an evaluation that appends the offer to the session's history
evaluate_call_recording(e, offer, negotiation) ==
  [eng |-> e, score |-> _evaluate_offer(e, offer, negotiation), offer |-> offer,
   negotiation |-> [negotiation EXCEPT !.history = Append(@, offer)]]

\* a call of _evaluate_offer: the engine, the offer and the session as the
\* call leaves them, and the score it returns
evaluate_call(e, offer, negotiation) ==
  [eng |-> e, score |-> _evaluate_offer(e, offer, negotiation), offer |-> offer,
   negotiation |-> negotiation]

----------------------------------------------------------------------------
(* Sessions *)

\* the session dict initiate_negotiation stores
InitiatorSession(nid, e, target_agent, request, initial_offer, deadline, t) ==
  [negotiation_id |-> nid, peer_offer |-> Absent, our_last_offer |-> Absent,
   initial_request |-> Some(request), history |-> <<>>,
   deadline |-> Some(deadline), participants |-> <<e.agent_id, target_agent>>,
   status |-> "initiated", current_round |-> 1, max_rounds |-> Some(MaxRounds),
   current_offer |-> Some(initial_offer), role |-> Absent, created_at |-> t]

\* the session dict _handle_negotiation_request stores
ResponderSession(nid, e, from_agent, initial_offer, t) ==
  [negotiation_id |-> nid, peer_offer |-> Some(initial_offer),
   our_last_offer |-> Absent, initial_request |-> Absent,
   history |-> <<initial_offer>>, deadline |-> Absent,
   participants |-> <<from_agent, e.agent_id>>,
   status |-> "in_progress", current_round |-> 1, max_rounds |-> Absent,
   current_offer |-> Absent, role |-> Some("responder"), created_at |-> t]

----------------------------------------------------------------------------
(* Operations of AgentNegotiationEngine *)

\* initiate_negotiation, with the uuid, the confidence draw and the clock
\* reading it gets
initiate_negotiation(e, nid, target_agent, request, max_duration, confidence, t) ==
  LET initial_offer == _formulate_initial_offer(e, target_agent, request, confidence)
      negotiation ==
        InitiatorSession(nid, e, target_agent, request, initial_offer, t + max_duration, t)
      request_message ==
        [Message(target_agent, "negotiation_request", nid) EXCEPT
           !.from_agent = Some(e.agent_id),
           !.initial_offer = Some(initial_offer),
           !.request_details = Some(request)]
  IN  Outcome([e EXCEPT !.active_negotiations = Put(@, nid, negotiation)],
              <<request_message>>, <<initial_offer>>, "initiated")

\* a participation gate without the trust check
_evaluate_negotiation_participation_any_trust(e, from_agent, offer, request_details) ==
  LET required_resources == _extract_resource_requirements(request_details)
      available_resources == _calculate_available_resources(e)
      required_expertise == request_details.required_expertise
  IN  /\ ~ \E k \in DOMAIN required_resources :
             Get(available_resources, k, 0) < Mul(required_resources[k], Pct(50))
      /\ ~ (e.current_workload > Pct(80))
      /\ ~ (required_expertise # {} /\ required_expertise \cap e.expertise_areas = {})

\* a participation gate without the expertise check
_evaluate_negotiation_participation_any_expertise(e, from_agent, offer, request_details) ==
  LET required_resources == _extract_resource_requirements(request_details)
      available_resources == _calculate_available_resources(e)
  IN  /\ ~ (Get(e.trust_scores, from_agent, Pct(50)) < Pct(30))
      /\ ~ \E k \in DOMAIN required_resources :
             Get(available_resources, k, 0) < Mul(required_resources[k], Pct(50))
      /\ ~ (e.current_workload > Pct(80))

\* _evaluate_negotiation_participation
_evaluate_negotiation_participation(e, from_agent, offer, request_details) ==
  LET trust_level == Get(e.trust_scores, from_agent, Pct(50))
      required_resources == _extract_resource_requirements(request_details)
      available_resources == _calculate_available_resources(e)
      required_expertise == request_details.required_expertise
  IN  /\ ~ (trust_level < Pct(30))
      /\ ~ \E k \in DOMAIN required_resources :
             Get(available_resources, k, 0) < Mul(required_resources[k], Pct(50))
      /\ ~ (e.current_workload > Pct(80))
      /\ ~ (required_expertise # {} /\ required_expertise \cap e.expertise_areas = {})
      /\ ~ (_calculate_potential_benefit(offer, request_details) < Pct(30))

\* _handle_negotiation_request
_handle_negotiation_request(e, message, confidence, t) ==
  LET negotiation_id == message.negotiation_id
      from_agent == message.from_agent[1]
      initial_offer == message.initial_offer[1]
      request_details == message.request_details[1]
      negotiation == ResponderSession(negotiation_id, e, from_agent, initial_offer, t)
      joined == [e EXCEPT !.active_negotiations = Put(@, negotiation_id, negotiation)]
      counter_offer ==
        _formulate_counter_offer(joined, from_agent, initial_offer, request_details, confidence)
  IN  IF ~ _evaluate_negotiation_participation(e, from_agent, initial_offer, request_details)
      THEN Outcome(e,
                   << [Message(from_agent, "rejection", negotiation_id) EXCEPT
                         !.reason = Some("insufficient_resources_or_interest"),
                         !.alternative_suggestions =
                            Some(_suggest_alternatives(request_details))] >>,
                   <<>>, "declined")
      ELSE Outcome(joined,
                   << [Message(from_agent, "counter_offer", negotiation_id) EXCEPT
                         !.counter_offer = Some(counter_offer)] >>,
                   <<counter_offer>>, "counter_offered")

\* an agreement execution that deducts an amount only where that much of the
\* kind is there
_execute_agreement_guarded(e, agreement) ==
  LET resources_committed == agreement.resources_committed
      peer_agent == OrElse(agreement.peer_agent, "")
      allocated ==
        [e EXCEPT
           !.available_resources =
              [k \in DOMAIN @ |->
                 IF k \in DOMAIN resources_committed /\ resources_committed[k] <= @[k]
                 THEN @[k] - resources_committed[k] ELSE @[k]],
           !.current_workload = Min(Unit, @ + OrElse(agreement.workload_increase, 0))]
  IN  IF peer_agent # ""
      THEN _update_trust_score(_update_collaboration_history(allocated, peer_agent, TRUE),
                               peer_agent, Pct(5))
      ELSE allocated

\* _execute_agreement
_execute_agreement(e, agreement) ==
  LET resources_committed == agreement.resources_committed
      workload_increase == OrElse(agreement.workload_increase, 0)
      peer_agent == OrElse(agreement.peer_agent, "")
      allocated ==
        [e EXCEPT
           !.available_resources =
              [k \in DOMAIN @ |->
                 IF k \in DOMAIN resources_committed
                 THEN @[k] - resources_committed[k] ELSE @[k]],
           !.current_workload = Min(Unit, @ + workload_increase)]
  IN  IF peer_agent # ""
      THEN _update_trust_score(_update_collaboration_history(allocated, peer_agent, TRUE),
                               peer_agent, Pct(5))
      ELSE allocated

\* the acceptance test of _handle_counter_offer
offer_accepted(acceptance_score) == acceptance_score > Pct(80)

\* a round check that reads only a stored max_rounds
max_rounds_reached_stored_only(negotiation) ==
  /\ Len(negotiation.max_rounds) > 0
  /\ negotiation.current_round >= negotiation.max_rounds[1]

\* the round check of _handle_counter_offer
max_rounds_reached(negotiation) ==
  negotiation.current_round >= OrElse(negotiation.max_rounds, MaxRounds)

\* _handle_counter_offer (and _handle_offer, which delegates to it)
_handle_counter_offer(e, message) ==
  LET negotiation_id == message.negotiation_id
      counter_offer == message.counter_offer[1]
      from_agent == OrElse(message.from_agent, counter_offer.from_agent)
      advanced ==
        [e.active_negotiations[negotiation_id] EXCEPT
           !.current_round = @ + 1,
           !.peer_offer = Some(counter_offer),
           !.history = Append(@, counter_offer)]
      stored(negotiation) ==
        [e EXCEPT !.active_negotiations = Put(@, negotiation_id, negotiation)]
      acceptance_score == _evaluate_offer(e, counter_offer, advanced)
      accepted == [advanced EXCEPT !.status = "accepted"]
      agreement == _create_agreement(counter_offer, accepted)
      rejected == [advanced EXCEPT !.status = "rejected"]
      new_counter_offer == _refine_offer(e, counter_offer, advanced, acceptance_score)
      refined == [advanced EXCEPT !.our_last_offer = Some(new_counter_offer)]
  IN  IF negotiation_id \notin DOMAIN e.active_negotiations
      THEN Outcome(e, <<>>, <<>>, "unknown_negotiation")
      ELSE IF evaluate_raises(e, counter_offer)
      THEN Outcome(stored(advanced), <<>>, <<>>, "ZeroDivisionError")
      ELSE IF offer_accepted(acceptance_score)
      THEN Outcome(_execute_agreement(stored(accepted), agreement),
                   << [Message(from_agent, "acceptance", negotiation_id) EXCEPT
                         !.agreement = Some(agreement),
                         !.score = Some(acceptance_score)] >>,
                   <<>>, "accepted")
      ELSE IF max_rounds_reached(advanced)
      THEN Outcome(stored(rejected),
                   << [Message(from_agent, "rejection", negotiation_id) EXCEPT
                         !.reason = Some("max_rounds_exceeded"),
                         !.score = Some(acceptance_score)] >>,
                   <<>>, "rejected")
      ELSE Outcome(stored(refined),
                   << [Message(from_agent, "counter_offer", negotiation_id) EXCEPT
                         !.counter_offer = Some(new_counter_offer),
                         !.round = Some(advanced.current_round)] >>,
                   <<new_counter_offer>>, "counter_offered")

\* an acceptance handler that executes the agreement of a session once
_handle_acceptance_once(e, message) ==
  LET negotiation_id == message.negotiation_id
      completed ==
        [e EXCEPT !.active_negotiations[negotiation_id].status = "completed"]
  IN  IF /\ negotiation_id \in DOMAIN e.active_negotiations
         /\ e.active_negotiations[negotiation_id].status # "completed"
      THEN Outcome(_execute_agreement(completed, message.agreement[1]),
                   <<>>, <<>>, "acknowledged")
      ELSE Outcome(e, <<>>, <<>>, "acknowledged")

\* _handle_acceptance
_handle_acceptance(e, message) ==
  LET negotiation_id == message.negotiation_id
      completed ==
        [e EXCEPT !.active_negotiations[negotiation_id].status = "completed"]
  IN  IF negotiation_id \in DOMAIN e.active_negotiations
      THEN Outcome(_execute_agreement(completed, message.agreement[1]),
                   <<>>, <<>>, "acknowledged")
      ELSE Outcome(e, <<>>, <<>>, "acknowledged")

\* a rejection handler that acknowledges and leaves the session as it is
_handle_rejection_status_kept(e, message) == Outcome(e, <<>>, <<>>, "acknowledged")

\* a learning step that lowers the trust in the session's second participant
_learn_from_rejection_penalising(e, rejection_message, negotiation) ==
  _update_trust_score(e, negotiation.participants[2], 0 - Pct(5))

\* _learn_from_rejection: reads the reason and changes nothing
_learn_from_rejection(e, rejection_message, negotiation) == e

\* _handle_rejection
_handle_rejection(e, message) ==
  LET negotiation_id == message.negotiation_id
      rejected == [e EXCEPT !.active_negotiations[negotiation_id].status = "rejected"]
  IN  IF negotiation_id \in DOMAIN e.active_negotiations
      THEN Outcome(_learn_from_rejection(rejected, message,
                                         rejected.active_negotiations[negotiation_id]),
                   <<>>, <<>>, "acknowledged")
      ELSE Outcome(e, <<>>, <<>>, "acknowledged")

\* message_handlers: the handler registered for the message's kind
Dispatch(e, message, confidence, t) ==
  CASE message.kind = "negotiation_request" ->
         _handle_negotiation_request(e, message, confidence, t)
    [] message.kind \in {"offer", "counter_offer"} -> _handle_counter_offer(e, message)
    [] message.kind = "acceptance" -> _handle_acceptance(e, message)
    [] message.kind = "rejection" -> _handle_rejection(e, message)

----------------------------------------------------------------------------
(* The environment: messages an engine can receive that its peer engine did
   not send in this run (forged, replayed or sent by another deployment).
   Handlers validate nothing, so these are inputs of the program. *)

\* an offer whose confidence lies outside [0,1]
OverconfidentOffer(from, to) ==
  NegotiationOffer(from, to, EmptyDict, EmptyDict, <<>>, Pct(50), 3 * Unit)

\* an agreement that commits more cpu than either engine has and raises the
\* workload by 0.9
OvercommittedAgreement(peer) ==
  Agreement([k \in {"cpu"} |-> 3 * Unit], Some(Pct(90)), Some(peer), Absent)

\* an agreement with a third agent that lowers the workload by 0.5
ReleasingAgreement ==
  Agreement(EmptyDict, Some(0 - Pct(50)), Some("c"), Absent)

\* an offer of a third agent that offers nothing and names cpu in what it
\* requests, at the amount 0
ZeroRequestOffer(to) ==
  NegotiationOffer("c", to, [k \in {"cpu"} |-> 0], EmptyDict, <<>>, Pct(50), Pct(70))

EnvMessages(a) ==
  LET p == Other(a) IN
  UNION { { [Message(a, "offer", n) EXCEPT
               !.counter_offer = Some(OverconfidentOffer(p, a))],
            [Message(a, "counter_offer", n) EXCEPT
               !.from_agent = Some("c"),
               !.counter_offer = Some(ZeroRequestOffer(a))],
            [Message(a, "acceptance", n) EXCEPT
               !.agreement = Some(OvercommittedAgreement(p))],
            [Message(a, "acceptance", n) EXCEPT
               !.agreement = Some(ReleasingAgreement)],
            [Message(a, "rejection", n) EXCEPT !.reason = Some("declined")],
            [Message(a, "negotiation_request", n) EXCEPT
               !.from_agent = Some("c"),
               !.initial_offer =
                  Some(NegotiationOffer("c", a, [k \in {"cpu"} |-> Unit], EmptyDict,
                                        <<>>, Pct(50), Pct(70))),
               !.request_details = Some(Request([k \in {"cpu"} |-> Unit], {}))] }
          : n \in EnvIds }

\* the negotiation requests the environment sends in the peer engine's name
PeerRequests(a) ==
  LET p == Other(a) IN
  { [Message(a, "negotiation_request", n) EXCEPT
       !.from_agent = Some(p),
       !.initial_offer =
          Some(NegotiationOffer(p, a, request.resources_needed,
                                [k \in {"cpu"} |-> Pct(50)], <<>>, Pct(50), Pct(70))),
       !.request_details = Some(request)]
    : n \in EnvIds, request \in Requests }

\* all the environment sends an engine whose only peer it is
SolePeerMessages(a) == EnvMessages(a) \cup PeerRequests(a)

----------------------------------------------------------------------------
(* State machine *)

\* the record of the step taken last
Step(op, a, nid, message, before, outcome, t) ==
  [negotiation_id |-> nid, out |-> outcome.out, formulated |-> outcome.formulated,
   result |-> outcome.result, message |-> message, op |-> op, before |-> before,
   agent |-> a, at |-> t]

NoStep ==
  [negotiation_id |-> "", out |-> <<>>, formulated |-> <<>>, result |-> "",
   message |-> Absent, op |-> "none", before |-> Absent, agent |-> "", at |-> 0]

RECURSIVE SeqToBag(_)
SeqToBag(s) == IF s = <<>> THEN EmptyBag ELSE SetToBag({Head(s)}) (+) SeqToBag(Tail(s))

\* _send_message: the transport is outside the engine; the model puts every
\* message for one of the two engines on a network that delivers in any
\* order, and a message for any other agent leaves the model
_send_message(network, out) ==
  network (+) SeqToBag(SelectSeq(out, LAMBDA m : m.to \in Agents))

\* negotiation ids no engine holds and no message in flight names
FreshIds ==
  { n \in NegIds :
      /\ \A a \in Agents : n \notin DOMAIN eng[a].active_negotiations
      /\ \A m \in BagToSet(net) : m.negotiation_id # n }

Init ==
  /\ \E seed \in Seeds : eng = [a \in Agents |-> AgentNegotiationEngine(a, seed)]
  /\ net = EmptyBag
  /\ now = 0
  /\ last = NoStep
  /\ inits = 0
  /\ injects = 0
  /\ pending = {}

\* an engine's caller starts a negotiation with the peer engine
Initiate(durations) ==
  /\ inits < MaxInit
  /\ FreshIds # {}
  /\ \E a \in Agents, request \in Requests, d \in durations, c \in ConfidenceDraws :
       LET nid == CHOOSE n \in FreshIds : \A x \in FreshIds : n = x \/ n = "n1"
           outcome == initiate_negotiation(eng[a], nid, Other(a), request, d, c, now)
       IN  /\ eng' = [eng EXCEPT ![a] = outcome.eng]
           /\ net' = _send_message(net, outcome.out)
           /\ last' = Step("initiate", a, nid, Absent, Some(eng[a]), outcome, now)
  /\ inits' = inits + 1
  /\ UNCHANGED <<now, injects, pending>>

\* the network delivers a message and the receiver's handler runs
Deliver ==
  /\ \E m \in BagToSet(net), c \in ConfidenceDraws :
       LET a == m.to
           outcome == Dispatch(eng[a], m, c, now)
       IN  /\ eng' = [eng EXCEPT ![a] = outcome.eng]
           /\ net' = _send_message(net (-) SetToBag({m}), outcome.out)
           /\ last' = Step(m.kind, a, m.negotiation_id, Some(m), Some(eng[a]), outcome, now)
  /\ UNCHANGED <<now, inits, injects, pending>>

\* the environment hands an engine a message of its own; with peer it also
\* stands in for the peer engine and sends its negotiation requests
Inject(bound, peer) ==
  /\ injects < bound
  /\ \E a \in Agents, c \in ConfidenceDraws :
       \E m \in IF peer THEN SolePeerMessages(a) ELSE EnvMessages(a) :
         LET outcome == Dispatch(eng[a], m, c, now)
         IN  /\ eng' = [eng EXCEPT ![a] = outcome.eng]
             /\ net' = _send_message(net, outcome.out)
             /\ last' = Step(m.kind, a, m.negotiation_id, Some(m), Some(eng[a]), outcome, now)
  /\ injects' = injects + 1
  /\ UNCHANGED <<now, inits, pending>>

\* time passes
Tick ==
  /\ now < MaxTime
  /\ now' = now + 1
  /\ UNCHANGED <<eng, net, last, inits, injects, pending>>

\* two engines negotiate over the network while the environment interferes
Next == Initiate({DefaultDuration}) \/ Deliver \/ Inject(MaxInject, FALSE)

Spec == Init /\ [][Next]_vars

\* the network delivers nothing: every message an engine handles is the
\* environment's
NextEnv == Initiate({DefaultDuration}) \/ Inject(MaxEnv, TRUE)

EnvSpec == Init /\ [][NextEnv]_vars

\* two engines and the network alone, every message delivered
NextClosed == Initiate(Durations) \/ Deliver \/ Tick

ClosedSpec == Init /\ [][NextClosed]_vars /\ WF_vars(Deliver)

----------------------------------------------------------------------------
(* Calls of _refine_offer on a session that stores an offer of its engine
   as "our_last_offer" *)

\* values of current_score
Scores == {Pct(80), Pct(60), Pct(50), Pct(30), 0}

\* values of current_workload
Workloads == {0, Pct(50)}

\* values of a session's "our_last_offer"
LastOffers(a) ==
  { NegotiationOffer(a, Other(a),
                     [k \in {"cpu"} |-> requested],
                     [k \in Kinds |-> IF k = "cpu" THEN offered ELSE Pct(50)],
                     <<>>, Pct(50), Pct(70))
    : requested \in {0, Unit}, offered \in {0, Pct(50), Unit, 2 * Unit} }

\* the peer offer the calls are made with
PeerOffer(a) ==
  NegotiationOffer(Other(a), a, EmptyDict, EmptyDict, <<>>, Pct(80), Pct(70))

\* one engine holds a responder session that stores an offer of its own
InitRefine ==
  /\ \E a \in Agents, w \in Workloads : \E o \in LastOffers(a) :
       LET e == AgentNegotiationEngine(a, [trust |-> Absent, collab |-> Absent])
           negotiation ==
             [ResponderSession("n1", e, Other(a), PeerOffer(a), 0) EXCEPT
                !.our_last_offer = Some(o)]
       IN  eng = [x \in Agents |->
                    IF x = a
                    THEN [e EXCEPT !.current_workload = w,
                                   !.active_negotiations = Put(@, "n1", negotiation)]
                    ELSE AgentNegotiationEngine(x, [trust |-> Absent, collab |-> Absent])]
  /\ net = EmptyBag
  /\ now = 0
  /\ last = NoStep
  /\ inits = 0
  /\ injects = 0
  /\ pending = {}

\* _refine_offer is called on the session with a score below the one of the
\* call before; the call stores the refined offer as "our_last_offer"
Refine ==
  /\ \E a \in Agents, s \in Scores :
       \E n \in DOMAIN eng[a].active_negotiations :
         /\ last.op = "refine" => s < last.message[1].score[1]
         /\ LET negotiation == eng[a].active_negotiations[n]
                peer_offer == PeerOffer(a)
                refined_offer == _refine_offer(eng[a], peer_offer, negotiation, s)
                after == [eng[a] EXCEPT
                            !.active_negotiations[n].our_last_offer = Some(refined_offer)]
                call == [Message(a, "refine", n) EXCEPT
                           !.counter_offer = Some(peer_offer), !.score = Some(s)]
            IN  /\ eng' = [eng EXCEPT ![a] = after]
                /\ last' = Step("refine", a, n, Some(call), Some(eng[a]),
                                Outcome(after, <<>>, <<refined_offer>>, "refined"), now)
  /\ UNCHANGED <<net, now, inits, injects, pending>>

NextRefine == Refine

RefineSpec == InitRefine /\ [][NextRefine]_vars

----------------------------------------------------------------------------
(* Calls of _evaluate_offer in the states that executed agreements lead to *)

\* acceptance messages handled in one behaviour
MaxAccept == 2

\* an offer that offers nothing and requests cpu
RequestingOffer(from, to, amount, confidence) ==
  NegotiationOffer(from, to, [k \in {"cpu"} |-> amount], EmptyDict, <<>>, Pct(50), confidence)

\* the offers _evaluate_offer is called with
EvalOffers(a) ==
  { RequestingOffer(Other(a), a, amount, c)
    : amount \in {0, Pct(50), 2 * Unit}, c \in {Unit} }
  \cup {OverconfidentOffer(Other(a), a)}

\* an agreement that commits 0.6 cpu, within what either engine has
SharingAgreement(peer) ==
  Agreement([k \in {"cpu"} |-> Pct(60)], Absent, Some(peer), Absent)

\* acceptance messages with an agreement of the environment, for either
\* negotiation id
AcceptMessages(a) ==
  { [Message(a, "acceptance", n) EXCEPT !.agreement = Some(agreement)]
    : n \in NegIds,
      agreement \in {OvercommittedAgreement(Other(a)), ReleasingAgreement,
                     SharingAgreement(Other(a))} }

\* a negotiation request of a third agent, for the second negotiation id
SecondRequest(a) ==
  [Message(a, "negotiation_request", "n2") EXCEPT
     !.from_agent = Some("c"),
     !.initial_offer =
        Some(NegotiationOffer("c", a, [k \in {"cpu"} |-> Pct(50)], EmptyDict,
                              <<>>, Pct(50), Pct(70))),
     !.request_details = Some(Request([k \in {"cpu"} |-> Pct(50)], {}))]

\* an engine handles the request of the third agent
Join ==
  /\ \E a \in Agents :
       LET m == SecondRequest(a)
           outcome == Dispatch(eng[a], m, Pct(70), now)
       IN  /\ m.negotiation_id \notin DOMAIN eng[a].active_negotiations
           /\ eng' = [eng EXCEPT ![a] = outcome.eng]
           /\ net' = _send_message(net, outcome.out)
           /\ last' = Step(m.kind, a, m.negotiation_id, Some(m), Some(eng[a]), outcome, now)
  /\ UNCHANGED <<now, inits, injects, pending>>

\* an engine handles an acceptance that carries an agreement of the
\* environment
Accept ==
  /\ injects < MaxAccept
  /\ \E a \in Agents :
       \E m \in AcceptMessages(a) :
         LET outcome == Dispatch(eng[a], m, Pct(70), now)
         IN  /\ eng' = [eng EXCEPT ![a] = outcome.eng]
             /\ net' = _send_message(net, outcome.out)
             /\ last' = Step(m.kind, a, m.negotiation_id, Some(m), Some(eng[a]), outcome, now)
  /\ injects' = injects + 1
  /\ UNCHANGED <<now, inits, pending>>

\* _evaluate_offer is called for a session its engine holds; the step
\* records the offer and the score returned
Evaluate ==
  /\ \E a \in Agents :
       \E n \in DOMAIN eng[a].active_negotiations, offer \in EvalOffers(a) :
         LET raises == evaluate_raises(eng[a], offer)
             call == evaluate_call(eng[a], offer, eng[a].active_negotiations[n])
             after == IF raises THEN eng[a] ELSE call.eng
             message == [Message(a, "evaluate", n) EXCEPT
                           !.counter_offer = Some(offer),
                           !.score = IF raises THEN Absent ELSE Some(call.score)]
         IN  /\ eng' = [eng EXCEPT ![a] = after]
             /\ last' = Step("evaluate", a, n, Some(message), Some(eng[a]),
                             Outcome(after, <<>>, <<>>,
                                     IF raises THEN "ZeroDivisionError" ELSE "evaluated"),
                             now)
  /\ UNCHANGED <<net, now, inits, injects, pending>>

NextEval == Initiate({DefaultDuration}) \/ Join \/ Accept \/ Evaluate

EvalSpec == Init /\ [][NextEval]_vars

----------------------------------------------------------------------------
(* Handlers of one engine interleaved at their awaits.  The accept branch of
   _handle_counter_offer is the one place where statements follow an await
   that can suspend: it awaits _send_message and then executes the
   agreement.  Every other handler ends at its await of _send_message, and
   _execute_agreement awaits nothing. *)

\* messages the environment hands the engines in one behaviour
MaxAwait == 2

\* _handle_counter_offer takes its accept branch
accepts(e, message) ==
  /\ message.kind \in {"offer", "counter_offer"}
  /\ message.negotiation_id \in DOMAIN e.active_negotiations
  /\ ~ evaluate_raises(e, message.counter_offer[1])
  /\ offer_accepted(_evaluate_offer(e, message.counter_offer[1],
                                    e.active_negotiations[message.negotiation_id]))

\* the accept branch of _handle_counter_offer up to its await of
\* _send_message: the session advanced and ACCEPTED, the acceptance handed
\* to the transport, the agreement not yet executed
accept_until_send(e, message) ==
  LET negotiation_id == message.negotiation_id
      counter_offer == message.counter_offer[1]
      from_agent == OrElse(message.from_agent, counter_offer.from_agent)
      accepted ==
        [e.active_negotiations[negotiation_id] EXCEPT
           !.current_round = @ + 1,
           !.peer_offer = Some(counter_offer),
           !.history = Append(@, counter_offer),
           !.status = "accepted"]
      agreement == _create_agreement(counter_offer, accepted)
  IN  Outcome([e EXCEPT !.active_negotiations = Put(@, negotiation_id, accepted)],
              << [Message(from_agent, "acceptance", negotiation_id) EXCEPT
                    !.agreement = Some(agreement),
                    !.score = Some(_evaluate_offer(e, counter_offer, accepted))] >>,
              <<>>, "suspended")

\* an engine handles a message of the environment; a handler that takes the
\* accept branch is suspended at its await of _send_message
Handle ==
  /\ injects < MaxAwait
  /\ \E a \in Agents, c \in ConfidenceDraws :
       \E m \in EnvMessages(a) :
         LET outcome ==
               IF accepts(eng[a], m) THEN accept_until_send(eng[a], m)
               ELSE Dispatch(eng[a], m, c, now)
         IN  /\ eng' = [eng EXCEPT ![a] = outcome.eng]
             /\ net' = _send_message(net, outcome.out)
             /\ last' = Step(m.kind, a, m.negotiation_id, Some(m), Some(eng[a]), outcome, now)
             /\ pending' =
                  IF accepts(eng[a], m)
                  THEN pending \cup
                         { [Message(a, "execute", m.negotiation_id) EXCEPT
                              !.agreement = outcome.out[1].agreement] }
                  ELSE pending
  /\ injects' = injects + 1
  /\ UNCHANGED <<now, inits>>

\* a suspended handler goes on after its await: it executes the agreement
Resume ==
  /\ \E m \in pending :
       LET a == m.to
           after == _execute_agreement(eng[a], m.agreement[1])
       IN  /\ eng' = [eng EXCEPT ![a] = after]
           /\ last' = Step("execute", a, m.negotiation_id, Some(m), Some(eng[a]),
                           Outcome(after, <<>>, <<>>, "accepted"), now)
           /\ pending' = pending \ {m}
  /\ UNCHANGED <<net, now, inits, injects>>

NextAwait == Initiate({DefaultDuration}) \/ Handle \/ Resume

AwaitSpec == Init /\ [][NextAwait]_vars

----------------------------------------------------------------------------
(* Vocabulary of the properties *)

Holds(a, n) == n \in DOMAIN eng[a].active_negotiations

Session(a, n) == eng[a].active_negotiations[n]

MessageKinds == {"negotiation_request", "offer", "counter_offer", "acceptance", "rejection"}

\* the last step was a message handled by its receiver
Handled == last.op \in MessageKinds

\* the engine that took the last step, as it was before the step
Before == last.before[1]

\* the last step was a message for a session its receiver held
HandledHeld == Handled /\ last.negotiation_id \in DOMAIN Before.active_negotiations

SessionBefore == Before.active_negotiations[last.negotiation_id]

SessionAfter == eng[last.agent].active_negotiations[last.negotiation_id]

\* the kinds of the messages the last step sent
SentKinds == {last.out[i].kind : i \in 1..Len(last.out)}

----------------------------------------------------------------------------
(* C1 *)

\* C1: once a session's status is REJECTED, EXPIRED or COMPLETED no step
\* changes it, and once it is ACCEPTED the only other status it takes is
\* COMPLETED.
C1_TerminalStatusIsFinal ==
  [][\A a \in Agents : \A n \in NegIds :
       (Holds(a, n) /\ Session(a, n).status \in Terminal) =>
          /\ n \in DOMAIN eng'[a].active_negotiations
          /\ LET was == Session(a, n).status
                 is == eng'[a].active_negotiations[n].status
             IN  IF was = "accepted" THEN is \in {"accepted", "completed"} ELSE is = was]_vars

----------------------------------------------------------------------------
(* C2 *)

----------------------------------------------------------------------------
(* C3 *)

\* both engines hold negotiation n: the responder's gate has passed
Joined(n) == \A a \in Agents : Holds(a, n)

\* the exchange over n has ended: both sessions are REJECTED and no message
\* for n is in flight
EndedRejected(n) ==
  /\ \A a \in Agents : Holds(a, n) /\ Session(a, n).status = "rejected"
  /\ \A m \in BagToSet(net) : m.negotiation_id # n

\* C3: between two engines whose every message is delivered (where no offer
\* scores above 0.8), a negotiation that passes the responder's gate comes
\* to a point from which both sessions are REJECTED and no further
\* counter-offer is in flight.
C3_ExchangeEndsRejected == \A n \in NegIds : Joined(n) ~> [] EndedRejected(n)

\* C3 witness: an exchange has ended by the round limit, the initiator's
\* session in round 10.
C3_Witness ==
  \E n \in NegIds :
    /\ EndedRejected(n)
    /\ \E a \in Agents :
         /\ Session(a, n).current_round = 10
         /\ Len(Session(a, n).history) = 9

----------------------------------------------------------------------------
(* C4 *)

\* C4: a message handled for a non-terminal session whose deadline has
\* passed sets the session's status to EXPIRED, and its handler sends no
\* counter-offer and no acceptance.
C4_ExpiredOnFirstAccess ==
  ( /\ HandledHeld
    /\ SessionBefore.status \in NonTerminal
    /\ Len(SessionBefore.deadline) > 0
    /\ last.at > SessionBefore.deadline[1] )
  => /\ SessionAfter.status = "expired"
     /\ SentKinds \cap {"counter_offer", "acceptance"} = {}

----------------------------------------------------------------------------
(* C5 *)

\* the trust and collaboration updates of an executed agreement with peer,
\* and the deduction of the agreed amounts
AgreementExecuted(before, after, peer, amounts) ==
  /\ peer \in DOMAIN after.trust_scores
  /\ after.trust_scores[peer] = Min(Unit, Get(before.trust_scores, peer, Pct(50)) + Pct(5))
  /\ peer \in DOMAIN after.collaboration_history
  /\ after.collaboration_history[peer]
       = Mul(Get(before.collaboration_history, peer, Pct(50)), Pct(90)) + Pct(10)
  /\ \A k \in DOMAIN amounts \cap DOMAIN before.available_resources :
       after.available_resources[k] = before.available_resources[k] - amounts[k]

\* C5: when an engine accepts a counter-offer, and when its peer handles the
\* acceptance carrying the agreement _create_agreement built, the engine's
\* trust in the other has risen by 0.05 (capped at 1), its collaboration
\* history with the other is 0.9*old + 0.1, and the agreed resources are
\* deducted.
C5_AgreementExecutedOnBothSides ==
  /\ (Handled /\ last.result = "accepted") =>
        LET offer == last.message[1].counter_offer[1]
        IN  AgreementExecuted(Before, eng[last.agent], offer.from_agent,
                              offer.resources_requested)
  /\ (HandledHeld /\ last.op = "acceptance" /\ Len(last.message[1].agreement[1].terms) = 1) =>
        LET offer == last.message[1].agreement[1].terms[1]
        IN  AgreementExecuted(Before, eng[last.agent], offer.to_agent,
                              offer.resources_offered)

----------------------------------------------------------------------------
(* C6 *)

\* one of the four grounds on which the gate declines a request
GateGround(e, message) ==
  LET from_agent == message.from_agent[1]
      needed == message.request_details[1].resources_needed
      expertise == message.request_details[1].required_expertise
  IN  \/ Get(e.trust_scores, from_agent, Pct(50)) < Pct(30)
      \/ \E k \in DOMAIN needed :
           2 * Mul(Get(e.available_resources, k, 0), Unit - e.current_workload) < needed[k]
      \/ e.current_workload > Pct(80)
      \/ expertise # {} /\ expertise \cap e.expertise_areas = {}

\* C6: a negotiation_request the gate declines is answered by one rejection
\* with a reason and the alternative suggestions and by no counter-offer,
\* adds no session and leaves the capabilities as they were.
C6_DeclineLeavesNoTrace ==
  (last.op = "negotiation_request" /\ GateGround(Before, last.message[1])) =>
     /\ Len(last.out) = 1
     /\ last.out[1].kind = "rejection"
     /\ last.out[1].to = last.message[1].from_agent[1]
     /\ last.out[1].negotiation_id = last.negotiation_id
     /\ Len(last.out[1].reason) = 1
     /\ last.out[1].alternative_suggestions
          = Some(<<"partial_collaboration", "delayed_execution", "resource_sharing">>)
     /\ last.formulated = <<>>
     /\ eng[last.agent].active_negotiations = Before.active_negotiations
     /\ eng[last.agent].available_resources = Before.available_resources
     /\ eng[last.agent].current_workload = Before.current_workload
     /\ eng[last.agent].trust_scores = Before.trust_scores
     /\ eng[last.agent].collaboration_history = Before.collaboration_history
     /\ eng[last.agent].expertise_areas = Before.expertise_areas

\* C6 witness: a request from a peer trusted below 0.3 has been declined by
\* an engine that held no session for its id.
C6_Witness ==
  /\ last.op = "negotiation_request"
  /\ Get(Before.trust_scores, last.message[1].from_agent[1], Pct(50)) < Pct(30)
  /\ last.negotiation_id \notin DOMAIN Before.active_negotiations
  /\ last.result = "declined"
  /\ ~ Holds(last.agent, last.negotiation_id)

----------------------------------------------------------------------------
(* C7 *)

\* the engine's trust in and collaboration history with the peer are 0.9
WellKnown(e, peer) ==
  /\ Get(e.trust_scores, peer, Pct(50)) = Pct(90)
  /\ Get(e.collaboration_history, peer, Pct(50)) = Pct(90)

\* every amount the offer requests is available
FullyAvailable(e, offer) ==
  \A k \in DOMAIN offer.resources_requested :
    offer.resources_requested[k]
      <= Mul(Get(e.available_resources, k, 0), Unit - e.current_workload)

\* C7: with trust 0.9 and collaboration history 0.9 an initial offer offers
\* 0.9 of what is available, and the peer's counter-offer that requests
\* nothing beyond what is available is accepted in the session's first round.
C7_ScenarioA ==
  /\ (last.op = "initiate" /\ WellKnown(Before, Other(last.agent))) =>
        \A k \in DOMAIN Before.available_resources :
          last.formulated[1].resources_offered[k]
            = Mul(Mul(Before.available_resources[k], Unit - Before.current_workload), Pct(90))
  /\ ( /\ HandledHeld /\ last.op \in {"offer", "counter_offer"}
       /\ SessionBefore.current_round = 1
       /\ WellKnown(Before, last.message[1].counter_offer[1].from_agent)
       /\ FullyAvailable(Before, last.message[1].counter_offer[1]) )
     => SessionAfter.status = "accepted"

----------------------------------------------------------------------------
(* C8 *)

\* C8: every offer an engine formulates offers, of every kind, at most
\* available_resources[kind] * (1 - current_workload).
C8_OfferWithinAvailability ==
  \A i \in 1..Len(last.formulated) :
    \A k \in DOMAIN last.formulated[i].resources_offered :
      last.formulated[i].resources_offered[k]
        <= Mul(Get(Before.available_resources, k, 0), Unit - Before.current_workload)

----------------------------------------------------------------------------
(* C9 *)

\* C9: every trust score and every collaboration history value is within
\* [0,1].
C9_RelationshipValuesInRange ==
  \A a \in Agents :
    /\ \A p \in DOMAIN eng[a].trust_scores :
         0 <= eng[a].trust_scores[p] /\ eng[a].trust_scores[p] <= Unit
    /\ \A p \in DOMAIN eng[a].collaboration_history :
         0 <= eng[a].collaboration_history[p] /\ eng[a].collaboration_history[p] <= Unit

\* C9 witness: an agreement has been executed with a peer whose trust was
\* already 1, while the engine keeps values for two peers.
C9_Witness ==
  /\ HandledHeld /\ last.op = "acceptance"
  /\ \E p \in DOMAIN Before.trust_scores :
       /\ Before.trust_scores[p] = Unit
       /\ last.message[1].agreement[1].peer_agent = Some(p)
       /\ eng[last.agent].trust_scores[p] = Unit
       /\ eng[last.agent].collaboration_history[p] > Before.collaboration_history[p]

----------------------------------------------------------------------------
(* C10 *)

\* C10: every available resource is at least 0 and the workload is within
\* [0,1].
C10_CapabilitiesInRange ==
  \A a \in Agents :
    /\ \A k \in DOMAIN eng[a].available_resources : eng[a].available_resources[k] >= 0
    /\ 0 <= eng[a].current_workload /\ eng[a].current_workload <= Unit

----------------------------------------------------------------------------
(* C11 *)

\* C11: an offer, counter_offer, acceptance or rejection that names a
\* negotiation id its receiver does not hold is answered with the
\* unknown-negotiation error, sends nothing and leaves the receiver's active
\* negotiations, capabilities and negotiation history as they were.
C11_UnknownNegotiationError ==
  ( /\ last.op \in {"offer", "counter_offer", "acceptance", "rejection"}
    /\ last.negotiation_id \notin DOMAIN Before.active_negotiations )
  => /\ last.result = "unknown_negotiation"
     /\ last.out = <<>>
     /\ eng[last.agent] = Before

----------------------------------------------------------------------------
(* C12 *)

\* what a handler returns
HandlerResults ==
  {"declined", "counter_offered", "accepted", "rejected", "acknowledged",
   "unknown_negotiation"}

\* C12: handling a message that carries the fields of its kind ends with the
\* handler returning, never with an exception.
C12_HandlerReturns == Handled => last.result \in HandlerResults

----------------------------------------------------------------------------
(* C13 *)

\* C13: no session with a terminal status stays in active_negotiations, and
\* a session that has reached one has a record in negotiation_history.
C13_TerminalSessionArchived ==
  /\ \A a \in Agents : \A n \in DOMAIN eng[a].active_negotiations :
       Session(a, n).status \notin Terminal
  /\ ( /\ HandledHeld
       /\ SessionBefore.status \in NonTerminal
       /\ last.result \in {"accepted", "rejected"} \/ last.op \in {"acceptance", "rejection"} )
     => Len(eng[last.agent].negotiation_history) = Len(Before.negotiation_history) + 1

----------------------------------------------------------------------------
(* C14 *)

\* C14: the current_round of a session an engine holds never decreases.
C14_RoundNeverDecreases ==
  [][\A a \in Agents : \A n \in NegIds :
       (Holds(a, n) /\ n \in DOMAIN eng'[a].active_negotiations) =>
          eng'[a].active_negotiations[n].current_round >= Session(a, n).current_round]_vars

----------------------------------------------------------------------------
(* C15 *)

\* no offer the session of the last step has received scores above 0.8
NeverScoredAbove ==
  \A i \in 1..Len(SessionAfter.history) :
    /\ ~ evaluate_raises(eng[last.agent], SessionAfter.history[i])
    /\ ~ offer_accepted(_evaluate_offer(eng[last.agent], SessionAfter.history[i], SessionAfter))

\* C15: while no counter-offer a session receives scores above 0.8, the
\* counter-offer that brings it to round 10 moves it to REJECTED with one
\* rejection of reason max_rounds_exceeded and no refined offer, and no
\* counter-offer is evaluated in a round beyond 10.
C15_RejectedAtRoundTen ==
  ( /\ HandledHeld
    /\ last.op \in {"offer", "counter_offer"}
    /\ NeverScoredAbove )
  => /\ SessionAfter.current_round <= MaxRounds
     /\ SessionAfter.current_round = MaxRounds =>
          /\ SessionAfter.status = "rejected"
          /\ Len(last.out) = 1
          /\ last.out[1].kind = "rejection"
          /\ last.out[1].reason = Some("max_rounds_exceeded")
          /\ last.formulated = <<>>

----------------------------------------------------------------------------
(* C16 *)

\* C16: a call of _refine_offer offers, of every kind, at least what the
\* session's last offer offered or else the cap of 0.9 of what is available,
\* and requests at most what the last offer requested.
C16_RefinementMonotone ==
  last.op = "refine" =>
    LET previous == SessionBefore.our_last_offer[1]
        refined == last.formulated[1]
        our_available == _calculate_available_resources(Before)
    IN  /\ DOMAIN refined.resources_offered = DOMAIN previous.resources_offered
        /\ DOMAIN refined.resources_requested = DOMAIN previous.resources_requested
        /\ \A k \in DOMAIN previous.resources_offered :
             \/ refined.resources_offered[k] >= previous.resources_offered[k]
             \/ refined.resources_offered[k] = Mul(Get(our_available, k, 0), Pct(90))
        /\ \A k \in DOMAIN previous.resources_requested :
             refined.resources_requested[k] <= previous.resources_requested[k]

\* C16 witness: an offer that was itself refined against the peer offer has
\* been refined again, with more cpu offered and less cpu requested.
C16_Witness ==
  /\ last.op = "refine"
  /\ SessionBefore.our_last_offer[1].priority = PeerOffer(last.agent).priority
  /\ last.formulated[1].resources_offered["cpu"]
       > SessionBefore.our_last_offer[1].resources_offered["cpu"]
  /\ last.formulated[1].resources_requested["cpu"]
       < SessionBefore.our_last_offer[1].resources_requested["cpu"]

----------------------------------------------------------------------------
(* C17 *)

----------------------------------------------------------------------------
(* C18 *)

\* C18: a counter-offer handled for a held session is accepted when it
\* scores above 0.8, whatever the round; else the session is REJECTED with
\* reason max_rounds_exceeded when the round has reached max_rounds; else a
\* refined counter-offer is sent and the status is neither ACCEPTED nor
\* REJECTED.
C18_DecisionRule ==
  ( /\ HandledHeld
    /\ last.op \in {"offer", "counter_offer"}
    /\ ~ evaluate_raises(Before, last.message[1].counter_offer[1]) )
  => LET counter_offer == last.message[1].counter_offer[1]
         score == _evaluate_offer(Before, counter_offer, SessionBefore)
         round == SessionBefore.current_round + 1
         limit == OrElse(SessionBefore.max_rounds, MaxRounds)
     IN  /\ SessionAfter.current_round = round
         /\ IF score > Pct(80)
            THEN /\ SessionAfter.status = "accepted"
                 /\ SentKinds = {"acceptance"}
                 /\ Len(last.out) = 1
                 /\ eng[last.agent].available_resources
                      = _execute_agreement(Before, last.out[1].agreement[1]).available_resources
            ELSE IF round >= limit
            THEN /\ SessionAfter.status = "rejected"
                 /\ SentKinds = {"rejection"}
                 /\ Len(last.out) = 1
                 /\ last.out[1].reason = Some("max_rounds_exceeded")
            ELSE /\ SentKinds = {"counter_offer"}
                 /\ Len(last.out) = 1
                 /\ Len(last.formulated) = 1
                 /\ SessionAfter.status \notin {"accepted", "rejected"}

----------------------------------------------------------------------------
(* C19 *)

\* C19: a negotiation_request is declined exactly when the sender's trust is
\* below 0.3, or some requested kind is available below 50% of the amount
\* requested, or the workload is above 0.8, or expertise is required and
\* none of it is the receiver's, or the estimated benefit is below 0.3.
C19_GateDeclinesExactly ==
  last.op = "negotiation_request" =>
    LET message == last.message[1]
        declines ==
          \/ GateGround(Before, message)
          \/ _calculate_potential_benefit(message.initial_offer[1],
                                          message.request_details[1]) < Pct(30)
    IN  /\ declines => last.result = "declined" /\ SentKinds = {"rejection"}
        /\ ~ declines =>
             /\ last.result = "counter_offered"
             /\ SentKinds = {"counter_offer"}
             /\ Holds(last.agent, last.negotiation_id)

\* C19 witness: a request has been declined for its required expertise
\* alone, by an engine that has admitted a request before.
C19_Witness ==
  /\ last.op = "negotiation_request"
  /\ last.result = "declined"
  /\ Get(Before.trust_scores, last.message[1].from_agent[1], Pct(50)) >= Pct(30)
  /\ Before.current_workload <= Pct(80)
  /\ \A k \in DOMAIN last.message[1].request_details[1].resources_needed :
       2 * Mul(Get(Before.available_resources, k, 0), Unit - Before.current_workload)
         >= last.message[1].request_details[1].resources_needed[k]
  /\ \E n \in DOMAIN Before.active_negotiations :
       Len(Before.active_negotiations[n].role) = 1

----------------------------------------------------------------------------
(* C20 *)

\* C20: a session its engine has moved to ACCEPTED is COMPLETED once the
\* engine has executed the agreement, and a session becomes COMPLETED only
\* from ACCEPTED.
C20_CompletedAfterAccepted ==
  /\ (HandledHeld /\ last.result = "accepted") => SessionAfter.status = "completed"
  /\ ( /\ HandledHeld
       /\ SessionAfter.status = "completed"
       /\ SessionBefore.status # "completed" )
     => SessionBefore.status = "accepted"

----------------------------------------------------------------------------
(* C21 *)

\* C21: after a handler has sent a counter-offer for a session (the
\* responder's first counter-offer or a refined offer), the session's status
\* at that engine is COUNTER_OFFER.
C21_CounterOfferStatus ==
  (Handled /\ last.result = "counter_offered") =>
     /\ Holds(last.agent, last.negotiation_id)
     /\ SessionAfter.status = "counter_offer"

----------------------------------------------------------------------------
(* C22 *)

\* the offers of engine a for negotiation n that its peer has received
OwnOffersReceived(a, n) ==
  IF Holds(Other(a), n)
  THEN SelectSeq(Session(Other(a), n).history, LAMBDA o : o.from_agent = a)
  ELSE <<>>

\* the offers the engine of the last step had sent for the session before
\* the step: a stored initial offer, else its offers the peer has received
OwnOffersBefore ==
  IF Len(SessionBefore.current_offer) = 1 THEN SessionBefore.current_offer
  ELSE OwnOffersReceived(last.agent, last.negotiation_id)

\* C22: the first refined offer of a session offers, of every kind, at least
\* what the engine's preceding offer in the session offered (the initiator's
\* initial offer, the responder's first counter-offer) or else the cap of 0.9
\* of what is available, and requests at most what that offer requested.
C22_FirstRefinementMonotone ==
  ( /\ HandledHeld
    /\ last.op \in {"offer", "counter_offer"}
    /\ last.result = "counter_offered"
    /\ Len(SessionBefore.our_last_offer) = 0
    /\ Len(OwnOffersBefore) > 0 )
  => LET previous == OwnOffersBefore[Len(OwnOffersBefore)]
         refined == last.formulated[1]
         our_available == _calculate_available_resources(Before)
     IN  /\ \A k \in DOMAIN previous.resources_offered :
              \/ Get(refined.resources_offered, k, 0) >= previous.resources_offered[k]
              \/ Get(refined.resources_offered, k, 0) = Mul(Get(our_available, k, 0), Pct(90))
         /\ \A k \in DOMAIN refined.resources_requested :
              refined.resources_requested[k] <= Get(previous.resources_requested, k, 0)

----------------------------------------------------------------------------
(* C23 *)

\* C23: every score _evaluate_offer returns is within [0,1], also where an
\* available resource is zero or has gone below zero after agreement
\* executions.
C23_ScoreInRange ==
  (last.op = "evaluate" /\ last.result = "evaluated") =>
     /\ 0 <= last.message[1].score[1]
     /\ last.message[1].score[1] <= Unit

----------------------------------------------------------------------------
(* C24 *)

\* the agreement the last step executed, if it executed one
ExecutedAgreement ==
  IF HandledHeld /\ last.op = "acceptance" THEN last.message[1].agreement
  ELSE IF Handled /\ last.result = "accepted" THEN last.out[1].agreement
  ELSE Absent

\* C24: an executed agreement deducts every committed amount in full from
\* what the engine has of the kind, whatever is left of it and whatever other
\* sessions of the engine have committed.
C24_DeductionUnguarded ==
  Len(ExecutedAgreement) = 1 =>
    \A k \in DOMAIN Before.available_resources :
      eng[last.agent].available_resources[k]
        = Before.available_resources[k]
            - Get(ExecutedAgreement[1].resources_committed, k, 0)

\* C24 witness: an engine holds two sessions; the agreement of each commits
\* cpu within what the engine had at first, the first has been executed, and
\* the execution of the second leaves less than no cpu.
C24_Witness ==
  /\ HandledHeld /\ last.op = "acceptance"
  /\ \E n \in DOMAIN Before.active_negotiations :
       /\ n # last.negotiation_id
       /\ Before.active_negotiations[n].status = "completed"
  /\ SessionBefore.status # "completed"
  /\ LET committed == Get(ExecutedAgreement[1].resources_committed, "cpu", 0)
         initial == InitialResources(last.agent)["cpu"]
     IN  /\ committed > 0 /\ committed <= initial
         /\ Before.available_resources["cpu"] = initial - committed
         /\ eng[last.agent].available_resources["cpu"] < 0

----------------------------------------------------------------------------
(* C25 *)

\* C25: formulating the initial offer of the last step again, for the same
\* request in the state the engine was in, gives an offer that has the same
\* confidence wherever its offered and requested amounts are the same.
C25_ConfidenceDetermined ==
  last.op = "initiate" =>
    \A c \in ConfidenceDraws :
      LET first == last.formulated[1]
          request == SessionAfter.initial_request[1]
          second == _formulate_initial_offer(Before, first.to_agent, request, c)
      IN  ( /\ second.resources_offered = first.resources_offered
            /\ second.resources_requested = first.resources_requested )
          => second.confidence = first.confidence

----------------------------------------------------------------------------
(* C26 *)

\* the engine's available resources are non-negative and its trust and
\* collaboration values within [0,1]
InRange(e) ==
  /\ \A k \in DOMAIN e.available_resources : e.available_resources[k] >= 0
  /\ \A p \in DOMAIN e.trust_scores : 0 <= e.trust_scores[p] /\ e.trust_scores[p] <= Unit
  /\ \A p \in DOMAIN e.collaboration_history :
       0 <= e.collaboration_history[p] /\ e.collaboration_history[p] <= Unit

\* no counter-offer a handler has just evaluated, and no offer of confidence
\* at most 1 evaluated for a session in this state, scores above 0.6
ScoresAtMostSixTenths ==
  /\ ( /\ HandledHeld /\ last.op \in {"offer", "counter_offer"}
       /\ InRange(Before) /\ last.message[1].counter_offer[1].confidence <= Unit )
     => /\ ~ evaluate_raises(Before, last.message[1].counter_offer[1])
        /\ _evaluate_offer(Before, last.message[1].counter_offer[1], SessionBefore) <= Pct(60)
  /\ \A a \in Agents : \A n \in DOMAIN eng[a].active_negotiations :
       \A offer \in EvalOffers(a) :
         (InRange(eng[a]) /\ offer.confidence <= Unit) =>
            /\ ~ evaluate_raises(eng[a], offer)
            /\ _evaluate_offer(eng[a], offer, Session(a, n)) <= Pct(60)

\* no session is ACCEPTED or has been completed by an acceptance
NoSessionAccepted ==
  \A a \in Agents : \A n \in DOMAIN eng[a].active_negotiations :
    Session(a, n).status \notin {"accepted", "completed"}

\* C26: between two engines as written no evaluation scores above 0.6, no
\* session is ever ACCEPTED, and every negotiation that passes the gate ends
\* with both sessions REJECTED.
C26_NeverAccepted ==
  /\ [](ScoresAtMostSixTenths /\ NoSessionAccepted)
  /\ \A n \in NegIds : Joined(n) ~> [] EndedRejected(n)

\* C26 witness: between engines that trust each other at 0.9 a counter-offer
\* has been evaluated at more than 0.45 and rejected at the round limit.
C26_Witness ==
  /\ HandledHeld /\ last.op = "counter_offer" /\ last.result = "rejected"
  /\ Get(Before.trust_scores, Other(last.agent), Pct(50)) = Pct(90)
  /\ last.out[1].score[1] > Pct(45)
  /\ last.out[1].score[1] <= Pct(60)
  /\ SessionAfter.status = "rejected"

----------------------------------------------------------------------------
(* C27 *)

\* C27: every acceptance handled for a held negotiation id executes its
\* agreement, whatever the session's status was: the committed amounts are
\* deducted, the workload increase is applied, the trust and collaboration
\* values of the agreement's peer are raised, and the session is COMPLETED.
C27_AcceptanceExecutesEachTime ==
  (HandledHeld /\ last.op = "acceptance") =>
    LET agreement == last.message[1].agreement[1]
        after == eng[last.agent]
    IN  /\ SessionAfter.status = "completed"
        /\ \A k \in DOMAIN Before.available_resources :
             after.available_resources[k]
               = Before.available_resources[k] - Get(agreement.resources_committed, k, 0)
        /\ after.current_workload
             = Min(Unit, Before.current_workload + OrElse(agreement.workload_increase, 0))
        /\ Len(agreement.peer_agent) = 1 =>
             AgreementExecuted(Before, after, agreement.peer_agent[1],
                               agreement.resources_committed)

\* C27 witness: the acceptance that completed a session has been handled a
\* second time: cpu has been deducted twice and trust raised twice.
C27_Witness ==
  /\ HandledHeld /\ last.op = "acceptance"
  /\ SessionBefore.status = "completed"
  /\ LET agreement == last.message[1].agreement[1]
         committed == Get(agreement.resources_committed, "cpu", 0)
         initial == InitialResources(last.agent)["cpu"]
         peer == agreement.peer_agent[1]
     IN  /\ committed > 0
         /\ Before.available_resources["cpu"] = initial - committed
         /\ eng[last.agent].available_resources["cpu"] = initial - 2 * committed
         /\ peer \in DOMAIN Before.trust_scores
         /\ eng[last.agent].trust_scores[peer] = Before.trust_scores[peer] + Pct(5)
         /\ eng[last.agent].collaboration_history[peer] > Before.collaboration_history[peer]

----------------------------------------------------------------------------
(* C28 *)

\* C28: when a handler executes the agreement of a session after its await,
\* the session's status is ACCEPTED or COMPLETED, whatever other handlers of
\* the engine ran while it was suspended.
C28_ExecutedWhileAccepted ==
  (last.op = "execute" /\ last.negotiation_id \in DOMAIN Before.active_negotiations) =>
     SessionBefore.status \in {"accepted", "completed"}

----------------------------------------------------------------------------
(* C29 *)

\* the participant of the session that is not the engine holding it
SessionPeer(a, negotiation) ==
  IF negotiation.participants[1] = a THEN negotiation.participants[2]
  ELSE negotiation.participants[1]

\* C29: every offer in a session's history is an offer of the session's
\* peer, and the history of a session created as responder is as long as
\* current_round, that of a session created as initiator one shorter.
C29_HistoryTiedToRound ==
  \A a \in Agents : \A n \in DOMAIN eng[a].active_negotiations :
    /\ \A i \in 1..Len(Session(a, n).history) :
         Session(a, n).history[i].from_agent = SessionPeer(a, Session(a, n))
    /\ Len(Session(a, n).history)
         = IF Session(a, n).role = Some("responder")
           THEN Session(a, n).current_round
           ELSE Session(a, n).current_round - 1

----------------------------------------------------------------------------
(* C30 *)

\* the capability values an agreement's execution changes are as before
CapabilitiesUnchanged(before, after) ==
  /\ after.trust_scores = before.trust_scores
  /\ after.collaboration_history = before.collaboration_history
  /\ after.available_resources = before.available_resources
  /\ after.current_workload = before.current_workload

\* the last step sent a rejection (the gate's, the decision rule's) or
\* handled one
RejectionStep ==
  \/ last.op = "rejection"
  \/ Handled /\ "rejection" \in SentKinds

\* C30: a step keeps every trust score or raises it by 0.05 capped at 1, an
\* unset score counting as 0.5, and never removes one; a step that sends or
\* handles a rejection leaves trust_scores, collaboration_history,
\* available_resources and current_workload as they were.
C30_TrustNeverDecreases ==
  last.op # "none" =>
    /\ \A p \in DOMAIN Before.trust_scores : p \in DOMAIN eng[last.agent].trust_scores
    /\ \A p \in DOMAIN eng[last.agent].trust_scores :
         LET old == Get(Before.trust_scores, p, Pct(50))
             new == eng[last.agent].trust_scores[p]
         IN  /\ new >= old
             /\ new # old => new = Min(Unit, old + Pct(5))
             /\ p \notin DOMAIN Before.trust_scores => new = Pct(55)
    /\ RejectionStep => CapabilitiesUnchanged(Before, eng[last.agent])

\* C30 witness: an engine that had executed an agreement, so that its trust
\* in the peer was raised and its cpu deducted, has handled a rejection for
\* a session it holds, and the session is REJECTED.
C30_Witness ==
  /\ HandledHeld /\ last.op = "rejection"
  /\ SessionAfter.status = "rejected"
  /\ \E p \in DOMAIN Before.trust_scores : Before.trust_scores[p] = Pct(95)
  /\ Before.available_resources # InitialResources(last.agent)
  /\ CapabilitiesUnchanged(Before, eng[last.agent])

====
